---- MODULE Spec2Model ----
(***************************************************************************)
(* Loan repayment vs. investment growth analyzer                            *)
(* (src/loan_vs_investment_app.py).                                         *)
(*                                                                          *)
(* Modelled: calculate_minimum_loan_payment, calculate_financials and the   *)
(* allocation sweep that drives them (first load and "Find Optimal Split"). *)
(*                                                                          *)
(* Units.  Money is held in integer cents, which is what                    *)
(* Decimal.quantize(Decimal("0.01")) produces.  loan_amount and             *)
(* total_monthly_payment are whole dollars, as the integer number_input     *)
(* widgets deliver them.  loan_rate = k stands for the annual rate          *)
(* 12*k/RateDen, so that monthly_loan_rate = Decimal(loan_rate)/Decimal(12) *)
(* is exactly k/RateDen (a dyadic fraction: exact both as a float and as a  *)
(* Decimal).  investment_rate = j stands for the annual rate 12*j, so that  *)
(* monthly_investment_rate is the integer j and the unrounded investment    *)
(* balance stays an exact number of cents.                                  *)
(*                                                                          *)
(* Decimal values that do not fit a machine integer are held as Big:        *)
(* a sequence of Limbs limbs, least significant first, in base Base.        *)
(***************************************************************************)
EXTENDS Integers, Sequences, FiniteSets, TLC

\* ------------------------------------------------------------------ bounds
MaxLoanUnits == 6     \* loan_amount ranges over LoanUnit * (0..MaxLoanUnits)
MaxBudgetUnits == 3   \* total_monthly_payment over BudgetUnit * (0..MaxBudgetUnits)
MaxLoanRate == 2      \* loan_rate over 0..MaxLoanRate
MaxInvestmentRate == 1 \* investment_rate over 0..MaxInvestmentRate
MaxYears == 1         \* years over 0..MaxYears
PayParts == 2         \* user-chosen loan payments: budget * (0..PayParts) / PayParts

LoanUnit == 101       \* dollars; not a multiple of 3, so loan/12 has a cent fraction
BudgetUnit == 50      \* dollars
RateDen == 64         \* monthly loan rate is loan_rate / RateDen

\* the sweep increment in dollars, lines 191 and 214
Step == 50

\* ------------------------------------------------- Decimal as big integers
Base == 10000
Limbs == 16

\* carry propagation from limb i on; every limb but the last ends up in
\* 0..Base-1, the last one carries the sign
RECURSIVE Norm(_, _, _)
Norm(f, i, c) ==
    LET t == f[i] + c
    IN  IF i = Limbs THEN <<t>>
        ELSE <<t % Base>> \o Norm(f, i + 1, t \div Base)

BigOf(n) == Norm([i \in 1..Limbs |-> IF i = 1 THEN n ELSE 0], 1, 0)
BigAdd(a, b) == Norm([i \in 1..Limbs |-> a[i] + b[i]], 1, 0)
BigSub(a, b) == Norm([i \in 1..Limbs |-> a[i] - b[i]], 1, 0)
BigMul(a, m) == Norm([i \in 1..Limbs |-> a[i] * m], 1, 0)

Zeros == BigOf(0)

RECURSIVE BigCmpFrom(_, _, _)
BigCmpFrom(a, b, i) ==
    IF i = 0 THEN 0
    ELSE IF a[i] < b[i] THEN -1
    ELSE IF a[i] > b[i] THEN 1
    ELSE BigCmpFrom(a, b, i - 1)

BigLess(a, b) == BigCmpFrom(a, b, Limbs) = -1
BigLeq(a, b) == BigCmpFrom(a, b, Limbs) # 1

\* acc * m^n, one multiplication per step on an accumulator that is already
\* a normalised value (0 * m^n = 0)
RECURSIVE BigPowFrom(_, _, _)
BigPowFrom(acc, m, n) ==
    IF n = 0 \/ acc = Zeros THEN acc
    ELSE BigPowFrom(BigMul(acc, m), m, n - 1)

BigPow(m, n) == BigPowFrom(BigOf(1), m, n)

\* ------------------------------------------------------------- quantize
\* Decimal(x).quantize(Decimal("0.01")) with the context's default rounding
\* (ROUND_HALF_EVEN), for x = num/den cents, den > 0
QuantizeHalfEven(num, den) ==
    LET q == num \div den
        r == num % den
    IN  IF 2 * r < den THEN q
        ELSE IF 2 * r > den THEN q + 1
        ELSE IF q % 2 = 0 THEN q ELSE q + 1

\* (x * k/RateDen).quantize(Decimal("0.01"), rounding=ROUND_HALF_UP), x >= 0 cents
InterestHalfUp(balance, k) == (2 * balance * k + RateDen) \div (2 * RateDen)

\* ----------------------------------------- calculate_minimum_loan_payment
\* loan_amount * (r * (1+r)^n) / ((1+r)^n - 1) quantized ROUND_HALF_UP, in
\* cents, with r = k/RateDen:  the exact quotient is
\*     100*L*k*A / (RateDen*D),   A = (RateDen+k)^n,  D = A - RateDen^n,
\* and ROUND_HALF_UP gives the largest P with 2*RateDen*D*P <= 200*L*k*A + RateDen*D
RECURSIVE LargestP(_, _, _, _)
LargestP(den, target, lo, hi) ==
    IF lo = hi THEN lo
    ELSE LET mid == (lo + hi + 1) \div 2
         IN  IF BigLeq(BigMul(den, mid), target)
             THEN LargestP(den, target, mid, hi)
             ELSE LargestP(den, target, lo, mid - 1)

AmortizedPayment(L, k, n) ==
    LET A == BigPow(RateDen + k, n)
        D == BigSub(A, BigPow(RateDen, n))
        target == BigAdd(BigMul(BigMul(BigMul(A, 200), L), k), BigMul(D, RateDen))
    IN  LargestP(BigMul(D, 2 * RateDen), target, 0, 200 * L)

\* the returned payment as the exact fraction num/den of cents, or the
\* exception the call raises
calculate_minimum_loan_payment(L, k, y) ==
    IF k = 0
    THEN IF y * 12 = 0
         THEN [err |-> "ZeroDivisionError", num |-> 0, den |-> 1]
         ELSE [err |-> "", num |-> 100 * L, den |-> y * 12]
    ELSE IF y * 12 = 0
         THEN [err |-> "", num |-> 100 * L, den |-> 1]
         ELSE [err |-> "", num |-> AmortizedPayment(L, k, y * 12), den |-> 1]

\* ------------------------------------------------- calculate_financials
\* the arguments after quantization (lines 26-33): cents, cents, cents, months
Args(L, k, j, B, payment, y) ==
    [loan_amount |-> 100 * L, loan_rate |-> k, investment_rate |-> j,
     total_monthly_payment |-> 100 * B, monthly_loan_payment |-> payment,
     total_months |-> y * 12]

\* the locals before the loop (lines 36-46); branch, contribution,
\* principal_paid and overpayment record what the last month did
InitialLocals(a) ==
    [month |-> 0,
     loan_balance |-> a.loan_amount,
     investment_balance |-> BigOf(0),
     monthly_investment_payment |-> a.total_monthly_payment - a.monthly_loan_payment,
     total_interest_paid |-> 0,
     total_principal_paid |-> 0,
     total_invested |-> 0,
     loan_paid_off |-> FALSE,
     branch |-> "none",
     contribution |-> 0,
     principal_paid |-> 0,
     overpayment |-> 0]

\* lines 51-53
InvestmentStep(a, s) ==
    [s EXCEPT !.month = s.month + 1,
              !.investment_balance =
                  BigAdd(BigMul(s.investment_balance, 1 + a.investment_rate),
                         BigOf(s.monthly_investment_payment)),
              !.total_invested = s.total_invested + s.monthly_investment_payment,
              !.contribution = s.monthly_investment_payment,
              !.branch = "none", !.principal_paid = 0, !.overpayment = 0]

\* line 67 with the comparison turned round
PaysOff_Reversed(loan_balance, principal_payment) == principal_payment <= loan_balance

\* line 67
PaysOff(loan_balance, principal_payment) == loan_balance <= principal_payment

\* lines 68-81 without line 81: the contribution is not raised to the budget
PayoffBranch_KeepsContribution(a, s, loan_interest) ==
    LET final_principal_payment == s.loan_balance
        overpayment == a.monthly_loan_payment - (final_principal_payment + loan_interest)
    IN  [s EXCEPT !.total_principal_paid = s.total_principal_paid + final_principal_payment,
                  !.investment_balance = BigAdd(s.investment_balance, BigOf(overpayment)),
                  !.total_invested = s.total_invested + overpayment,
                  !.loan_balance = 0,
                  !.loan_paid_off = TRUE,
                  !.branch = "payoff",
                  !.principal_paid = final_principal_payment,
                  !.overpayment = overpayment]

\* lines 68-81 without line 78: the balance is not forced to 0.00
PayoffBranch_KeepsBalance(a, s, loan_interest) ==
    LET final_principal_payment == s.loan_balance
        overpayment == a.monthly_loan_payment - (final_principal_payment + loan_interest)
    IN  [s EXCEPT !.total_principal_paid = s.total_principal_paid + final_principal_payment,
                  !.investment_balance = BigAdd(s.investment_balance, BigOf(overpayment)),
                  !.total_invested = s.total_invested + overpayment,
                  !.loan_paid_off = TRUE,
                  !.monthly_investment_payment = a.total_monthly_payment,
                  !.branch = "payoff",
                  !.principal_paid = final_principal_payment,
                  !.overpayment = overpayment]

\* lines 68-81 without line 76: the overpayment is not counted as invested
PayoffBranch_DropsOverpayment(a, s, loan_interest) ==
    LET final_principal_payment == s.loan_balance
        overpayment == a.monthly_loan_payment - (final_principal_payment + loan_interest)
    IN  [s EXCEPT !.total_principal_paid = s.total_principal_paid + final_principal_payment,
                  !.investment_balance = BigAdd(s.investment_balance, BigOf(overpayment)),
                  !.loan_balance = 0,
                  !.loan_paid_off = TRUE,
                  !.monthly_investment_payment = a.total_monthly_payment,
                  !.branch = "payoff",
                  !.principal_paid = final_principal_payment,
                  !.overpayment = overpayment]

\* lines 68-81
PayoffBranch(a, s, loan_interest) ==
    LET final_principal_payment == s.loan_balance
        overpayment == a.monthly_loan_payment - (final_principal_payment + loan_interest)
    IN  [s EXCEPT !.total_principal_paid = s.total_principal_paid + final_principal_payment,
                  !.investment_balance = BigAdd(s.investment_balance, BigOf(overpayment)),
                  !.total_invested = s.total_invested + overpayment,
                  !.loan_balance = 0,
                  !.loan_paid_off = TRUE,
                  !.monthly_investment_payment = a.total_monthly_payment,
                  !.branch = "payoff",
                  !.principal_paid = final_principal_payment,
                  !.overpayment = overpayment]

\* lines 83-84 crediting the whole payment, interest included, as principal
AmortizeBranch_CreditsInterest(a, s, principal_payment) ==
    [s EXCEPT !.loan_balance = s.loan_balance - principal_payment,
              !.total_principal_paid = s.total_principal_paid + a.monthly_loan_payment,
              !.branch = "amortize",
              !.principal_paid = principal_payment]

\* lines 83-84
AmortizeBranch(a, s, principal_payment) ==
    [s EXCEPT !.loan_balance = s.loan_balance - principal_payment,
              !.total_principal_paid = s.total_principal_paid + principal_payment,
              !.branch = "amortize",
              !.principal_paid = principal_payment]

\* lines 86-87
SafeguardBranch(a, s) ==
    [s EXCEPT !.monthly_investment_payment = a.total_monthly_payment,
              !.branch = "safeguard"]

\* lines 56-87
LoanStep(a, s) ==
    IF s.loan_balance > 0
    THEN LET loan_interest == InterestHalfUp(s.loan_balance, a.loan_rate)
             t == [s EXCEPT !.total_interest_paid = s.total_interest_paid + loan_interest]
         IN  IF ~ s.loan_paid_off
             THEN LET principal_payment == a.monthly_loan_payment - loan_interest
                  IN  IF PaysOff(s.loan_balance, principal_payment)
                      THEN PayoffBranch(a, t, loan_interest)
                      ELSE AmortizeBranch(a, t, principal_payment)
             ELSE SafeguardBranch(a, t)
    ELSE s

\* one iteration of the loop, lines 48-98
MonthStep(a, s) == LoanStep(a, InvestmentStep(a, s))

\* line 90, in cents
NetWorth(s) == BigSub(s.investment_balance, BigOf(s.loan_balance))

RECURSIVE RunMonths(_, _)
RunMonths(a, s) ==
    IF s.month >= a.total_months THEN s ELSE RunMonths(a, MonthStep(a, s))

\* the whole call: the final net worth (line 102), or KeyError when no month
\* was recorded and the frame has no "Net Worth" column
calculate_financials(a) ==
    IF a.total_months = 0
    THEN [err |-> "KeyError", final_net_worth |-> Zeros]
    ELSE [err |-> "", final_net_worth |-> NetWorth(RunMonths(a, InitialLocals(a)))]

\* ------------------------------------------------------------ the sweep
\* np.arange(min_loan_payment, total_monthly_payment + 1, step): the values
\* min + i*step that are < total + 1; with min = num/den cents that is
\* num + 100*step*i*den < 100*(B+1)*den
Allocation(mp, st, i) == mp.num + 100 * st * i * mp.den

ArangeLen(mp, B, st) ==
    LET span == 100 * (B + 1) * mp.den - mp.num
        inc == 100 * st * mp.den
    IN  IF span <= 0 THEN 0 ELSE (span + inc - 1) \div inc

NegInf == [inf |-> TRUE, val |-> Zeros]

\* lines 200 / 224 with >= : the last of several equal candidates wins
Better_OrEqual(final_net, best) == best.inf \/ BigLeq(best.val, final_net)

\* lines 200 / 224 with < : the sweep keeps the smallest net worth
Better_Smaller(final_net, best) == best.inf \/ BigLess(final_net, best.val)

\* lines 200 / 224: final_net > best_net_worth
Better(final_net, best) == best.inf \/ BigLess(best.val, final_net)

\* final net worth of the candidate with index i
CandidateNet(L, k, j, B, y, mp, st, i) ==
    calculate_financials(
        Args(L, k, j, B, QuantizeHalfEven(Allocation(mp, st, i), mp.den), y))

\* the loop of lines 191-202 from candidate i on, as a function of the
\* running (best_net_worth, sweet_spot_allocation)
RECURSIVE SweepFrom(_, _, _, _, _, _, _, _, _, _)
SweepFrom(L, k, j, B, y, mp, st, i, best, spot) ==
    IF i >= ArangeLen(mp, B, st) THEN [best |-> best, spot |-> spot]
    ELSE LET fn == CandidateNet(L, k, j, B, y, mp, st, i).final_net_worth
         IN  IF Better(fn, best)
             THEN SweepFrom(L, k, j, B, y, mp, st, i + 1,
                            [inf |-> FALSE, val |-> fn], Allocation(mp, st, i))
             ELSE SweepFrom(L, k, j, B, y, mp, st, i + 1, best, spot)

\* ------------------------------------------------------------ the state
VARIABLES
    loan_amount,            \* sidebar input, whole dollars
    loan_rate,              \* sidebar input, monthly rate numerator over RateDen
    investment_rate,        \* sidebar input, monthly rate
    total_monthly_payment,  \* sidebar input, whole dollars
    years,                  \* sidebar input
    pc,                     \* "start", "sweep", "select", "loop", "done", "error"
    error,                  \* the exception raised, "" when none
    min_loan_payment,       \* line 184
    sweep_i,                \* index of the next np.arange element
    best_net_worth,         \* lines 188 / 210
    sweet_spot_allocation,  \* lines 189 / 211, numerator over min_loan_payment.den
    slider_set,             \* "loan_payment_slider" in st.session_state
    loan_payment_slider,    \* st.session_state.loan_payment_slider
    args,                   \* arguments of the running calculate_financials call
    cf,                     \* its locals
    final_net_worth         \* its result (line 102), cents

vars == <<loan_amount, loan_rate, investment_rate, total_monthly_payment, years,
          pc, error, min_loan_payment, sweep_i, best_net_worth,
          sweet_spot_allocation, slider_set, loan_payment_slider,
          args, cf, final_net_worth>>

inputs == <<loan_amount, loan_rate, investment_rate, total_monthly_payment,
            years>>

LoanAmounts == {LoanUnit * u : u \in 0..MaxLoanUnits}
Budgets == {BudgetUnit * u : u \in 0..MaxBudgetUnits}

NoArgs == Args(0, 0, 0, 0, 0, 0)
NoMin == [err |-> "", num |-> 0, den |-> 1]

Init ==
    /\ loan_amount \in LoanAmounts
    /\ loan_rate \in 0..MaxLoanRate
    /\ investment_rate \in 0..MaxInvestmentRate
    /\ total_monthly_payment \in Budgets
    /\ years \in 0..MaxYears
    /\ pc = "start"
    /\ error = ""
    /\ min_loan_payment = NoMin
    /\ sweep_i = 0
    /\ best_net_worth = NegInf
    /\ sweet_spot_allocation = 0
    /\ slider_set = FALSE
    /\ loan_payment_slider = 0
    /\ args = NoArgs
    /\ cf = InitialLocals(NoArgs)
    /\ final_net_worth = Zeros

\* line 184, and lines 188-189 of the first-load sweep that follows it
CalcMin ==
    /\ pc = "start"
    /\ LET mp == calculate_minimum_loan_payment(loan_amount, loan_rate, years)
       IN  /\ min_loan_payment' = mp
           /\ sweet_spot_allocation' = mp.num
           /\ IF mp.err # ""
              THEN pc' = "error" /\ error' = mp.err
              ELSE pc' = "sweep" /\ error' = ""
    /\ UNCHANGED <<inputs, sweep_i, best_net_worth, slider_set,
                   loan_payment_slider, args, cf, final_net_worth>>

\* one iteration of the sweep loop, lines 191-202 / 213-226
SweepStep ==
    /\ pc = "sweep"
    /\ sweep_i < ArangeLen(min_loan_payment, total_monthly_payment, Step)
    /\ LET r == CandidateNet(loan_amount, loan_rate, investment_rate,
                             total_monthly_payment, years, min_loan_payment,
                             Step, sweep_i)
       IN  IF r.err # ""
           THEN /\ pc' = "error" /\ error' = r.err
                /\ UNCHANGED <<sweep_i, best_net_worth, sweet_spot_allocation>>
           ELSE /\ sweep_i' = sweep_i + 1
                /\ IF Better(r.final_net_worth, best_net_worth)
                   THEN /\ best_net_worth' = [inf |-> FALSE, val |-> r.final_net_worth]
                        /\ sweet_spot_allocation' =
                               Allocation(min_loan_payment, Step, sweep_i)
                   ELSE UNCHANGED <<best_net_worth, sweet_spot_allocation>>
                /\ UNCHANGED <<pc, error>>
    /\ UNCHANGED <<inputs, min_loan_payment, slider_set, loan_payment_slider,
                   args, cf, final_net_worth>>

\* the loop is exhausted: lines 203 / 227
SweepDone ==
    /\ pc = "sweep"
    /\ sweep_i >= ArangeLen(min_loan_payment, total_monthly_payment, Step)
    /\ loan_payment_slider' = sweet_spot_allocation
    /\ slider_set' = TRUE
    /\ pc' = "select"
    /\ UNCHANGED <<inputs, error, min_loan_payment, sweep_i, best_net_worth,
                   sweet_spot_allocation, args, cf, final_net_worth>>

\* "Find Optimal Split" pressed: lines 208-211
OptimizeButton ==
    /\ pc = "select"
    /\ best_net_worth' = NegInf
    /\ sweet_spot_allocation' = min_loan_payment.num
    /\ sweep_i' = 0
    /\ pc' = "sweep"
    /\ UNCHANGED <<inputs, error, min_loan_payment, slider_set,
                   loan_payment_slider, args, cf, final_net_worth>>

\* the loan payments calculate_financials is called with: the seeded slider
\* value, the minimum payment, fractions of the budget, the amounts around
\* the first month's interest, and every candidate of the sweep
FirstInterest == InterestHalfUp(100 * loan_amount, loan_rate)

PaymentChoices ==
    {QuantizeHalfEven(loan_payment_slider, min_loan_payment.den),
     QuantizeHalfEven(min_loan_payment.num, min_loan_payment.den)}
    \cup {(100 * total_monthly_payment * q) \div PayParts : q \in 0..PayParts}
    \cup {p \in {FirstInterest - 1, FirstInterest, FirstInterest + 1} :
              p >= 0 /\ p <= 100 * total_monthly_payment}
    \cup {QuantizeHalfEven(Allocation(min_loan_payment, Step, i), min_loan_payment.den) :
              i \in 0..(ArangeLen(min_loan_payment, total_monthly_payment, Step) - 1)}

\* the call of lines 292-307, up to the loop: lines 26-46
CallCalculateFinancials ==
    /\ pc = "select"
    /\ \E payment \in PaymentChoices :
         /\ args' = Args(loan_amount, loan_rate, investment_rate,
                         total_monthly_payment, payment, years)
         /\ cf' = InitialLocals(args')
    /\ pc' = "loop"
    /\ UNCHANGED <<inputs, error, min_loan_payment, sweep_i, best_net_worth,
                   sweet_spot_allocation, slider_set, loan_payment_slider,
                   final_net_worth>>

\* one month of the loop, lines 48-98
Month ==
    /\ pc = "loop"
    /\ cf.month < args.total_months
    /\ cf' = MonthStep(args, cf)
    /\ UNCHANGED <<inputs, pc, error, min_loan_payment, sweep_i, best_net_worth,
                   sweet_spot_allocation, slider_set, loan_payment_slider,
                   args, final_net_worth>>

\* lines 100-111
Return ==
    /\ pc = "loop"
    /\ cf.month >= args.total_months
    /\ IF args.total_months = 0
       THEN pc' = "error" /\ error' = "KeyError" /\ UNCHANGED final_net_worth
       ELSE pc' = "done" /\ error' = "" /\ final_net_worth' = NetWorth(cf)
    /\ UNCHANGED <<inputs, min_loan_payment, sweep_i, best_net_worth,
                   sweet_spot_allocation, slider_set, loan_payment_slider,
                   args, cf>>

Next ==
    \/ CalcMin
    \/ SweepStep
    \/ SweepDone
    \/ OptimizeButton
    \/ CallCalculateFinancials
    \/ Month
    \/ Return

Spec == Init /\ [][Next]_vars

\* =================================================================
\* Properties
\* =================================================================
InCall == pc \in {"loop", "done"}

\* a step that runs one month of the loop
MonthTaken == pc = "loop" /\ pc' = "loop" /\ cf'.month = cf.month + 1

WithinBudget == args.monthly_loan_payment <= args.total_monthly_payment

\* ------------------------------------------------------------------ C1
\* C1 as stated: for loanAmount >= 0 and 0 <= monthlyLoanPayment <= budget,
\* once the loan balance is 0.00 at the end of a month, every later month
\* records balance 0.00 and contributes the full budget in the growth step.
C1_PayoffDetection_AnyLoan ==
    [][(MonthTaken /\ cf.month >= 1 /\ cf.loan_balance = 0 /\ WithinBudget)
          => (cf'.loan_balance = 0
              /\ cf'.contribution = args.total_monthly_payment)]_vars

\* C1 amended: the same for loanAmount > 0, where a zero balance at the end
\* of a month can only come from the payoff branch.
C1_PayoffDetection ==
    [][(MonthTaken /\ cf.month >= 1 /\ cf.loan_balance = 0 /\ WithinBudget
           /\ args.loan_amount > 0)
          => (cf'.loan_balance = 0
              /\ cf'.contribution = args.total_monthly_payment)]_vars

\* a month after the payoff month of a real loan has run, with a payment
\* that left less than the budget for investing before the payoff
C1_Witness ==
    /\ pc = "loop"
    /\ args.loan_amount > 0
    /\ args.monthly_loan_payment > 0
    /\ WithinBudget
    /\ cf.loan_paid_off
    /\ cf.branch = "none"
    /\ cf.loan_balance = 0
    /\ cf.contribution = args.total_monthly_payment

\* ------------------------------------------------------------------ C2
\* C2: at the end of every month totalPrincipalPaid + loanBalance equals the
\* quantized loanAmount, each month the balance drops by exactly the
\* principal paid that month, and once paid off totalPrincipalPaid equals
\* loanAmount.
C2_PrincipalConservation ==
    /\ [](InCall =>
            /\ cf.total_principal_paid + cf.loan_balance = args.loan_amount
            /\ (cf.loan_paid_off => cf.total_principal_paid = args.loan_amount))
    /\ [][MonthTaken => cf'.loan_balance = cf.loan_balance - cf'.principal_paid]_vars

\* a loan that was amortized with interest over several months and then
\* paid off
C2_Witness ==
    /\ pc = "done"
    /\ cf.loan_paid_off
    /\ args.loan_amount > 0
    /\ cf.total_interest_paid > 0
    /\ cf.total_principal_paid = args.loan_amount
    /\ cf.month >= 12

\* ------------------------------------------------------------------ C3
MinQuantized == QuantizeHalfEven(min_loan_payment.num, min_loan_payment.den)

MinWithinBudget ==
    min_loan_payment.num <= 100 * total_monthly_payment * min_loan_payment.den

\* C3: for loanAmount > 0, any rate >= 0 and years >= 1, simulating with the
\* minimum payment (budget at least that payment) leaves the balance at
\* exactly 0.00 at or before month years*12.
C3_MinimumPaymentPaysOff ==
    (/\ pc = "done"
     /\ loan_amount > 0
     /\ years >= 1
     /\ MinWithinBudget
     /\ args.monthly_loan_payment = MinQuantized)
        => cf.loan_balance = 0

\* ------------------------------------------------------------------ C4
SweepLen == ArangeLen(min_loan_payment, total_monthly_payment, Step)

InRange(num) ==
    /\ min_loan_payment.num <= num
    /\ num <= 100 * total_monthly_payment * min_loan_payment.den

\* C4: the allocation the sweep selects satisfies minimumPayment <= chosen <=
\* totalMonthlyBudget, and so does every candidate the sweep simulates.
\* Stated for the budgets that can afford the minimum payment, where the
\* range is not empty.
C4_OptimizerRange ==
    (pc # "start" /\ min_loan_payment.err = "" /\ MinWithinBudget) =>
        /\ slider_set => InRange(loan_payment_slider)
        /\ pc = "sweep" =>
              \A i \in 0..(SweepLen - 1) :
                  InRange(Allocation(min_loan_payment, Step, i))

\* ------------------------------------------------------------------ C5
SweptNet(i) ==
    CandidateNet(loan_amount, loan_rate, investment_rate, total_monthly_payment,
                 years, min_loan_payment, Step, i).final_net_worth

ChosenIndex ==
    (sweet_spot_allocation - min_loan_payment.num)
        \div (100 * Step * min_loan_payment.den)

ChosenNet ==
    calculate_financials(
        Args(loan_amount, loan_rate, investment_rate, total_monthly_payment,
             QuantizeHalfEven(sweet_spot_allocation, min_loan_payment.den),
             years)).final_net_worth

ArgmaxFirstWins ==
    /\ \A i \in 0..(SweepLen - 1) : BigLeq(SweptNet(i), best_net_worth.val)
    /\ \A i \in 0..(ChosenIndex - 1) : SweptNet(i) # best_net_worth.val
    /\ ~ best_net_worth.inf
    /\ best_net_worth.val = ChosenNet

\* C5 as stated: after the sweep the chosen candidate's finalNetWorth is >=
\* that of every swept candidate, no earlier candidate equals it, and the
\* reported best net worth is the simulator's finalNetWorth for the chosen
\* allocation.
C5_Argmax_AnySweep == pc = "select" => ArgmaxFirstWins

\* C5 amended: the same whenever the sweep visits at least one candidate
\* (minimumPayment < totalMonthlyBudget + 1).
C5_Argmax == (pc = "select" /\ SweepLen > 0) => ArgmaxFirstWins

\* a sweep of several candidates whose winner is not the first one
C5_Witness ==
    /\ pc = "select"
    /\ SweepLen >= 3
    /\ ChosenIndex >= 1
    /\ ChosenIndex < SweepLen

\* ------------------------------------------------------------------ C6
\* the step sizes the sweep is compared under: the source's increment and
\* other values of the optimizer's step parameter
StepSizes == {Step, 25, 30}

\* the loop of lines 191-202 run with increment st
BestWithStep(st) ==
    SweepFrom(loan_amount, loan_rate, investment_rate, total_monthly_payment,
              years, min_loan_payment, st, 0, NegInf, min_loan_payment.num).best

\* the best net worth reported with increment st: for the source's increment
\* the value the sweep left in best_net_worth
ReportedBest(st) == IF st = Step THEN best_net_worth ELSE BestWithStep(st)

NotLess(a, b) == b.inf \/ (~ a.inf /\ BigLeq(b.val, a.val))

C7_DegenerateMinimum ==
    pc # "start" =>
        /\ years = 0 =>
              /\ min_loan_payment.err = ""
              /\ min_loan_payment.num = 100 * loan_amount
              /\ min_loan_payment.den = 1
        /\ (loan_rate = 0 /\ years >= 1) =>
              /\ min_loan_payment.err = ""
              /\ min_loan_payment.num * (years * 12)
                     = 100 * loan_amount * min_loan_payment.den

\* ------------------------------------------------------------------ C8
Underpaid ==
    /\ InCall
    /\ args.total_months > 0
    /\ args.loan_amount > 0
    /\ args.loan_rate > 0
    /\ args.monthly_loan_payment >= 0
    /\ args.monthly_loan_payment < InterestHalfUp(args.loan_amount, args.loan_rate)

\* C8: for loanAmount > 0 and rate > 0, a payment strictly below the first
\* month's rounded interest never clears the loan: the balance is positive
\* at the end of every month and never decreases, the paid-off flag is never
\* set, the final record has a positive balance, and no error is raised
\* (over the simulator's horizons, years >= 1).
C8_UnderpaymentNeverClears ==
    /\ [](Underpaid =>
            /\ cf.loan_balance > 0
            /\ ~ cf.loan_paid_off
            /\ error = "")
    /\ [][(Underpaid /\ MonthTaken) => cf'.loan_balance >= cf.loan_balance]_vars

\* an underpaid loan at the end of the horizon, the balance grown
C8_Witness ==
    /\ Underpaid
    /\ pc = "done"
    /\ args.monthly_loan_payment > 0
    /\ cf.loan_balance > args.loan_amount

\* ------------------------------------------------------------------ C9
\* C9: the safeguard else branch is never executed: whenever loanPaidOff is
\* set the balance is 0.00, the flag once set is never cleared, and the
\* balance never becomes positive again.
C9_SafeguardUnreachable ==
    /\ [](InCall =>
            /\ cf.branch # "safeguard"
            /\ (cf.loan_paid_off => cf.loan_balance = 0))
    /\ [][(MonthTaken /\ cf.loan_paid_off)
             => (cf'.loan_paid_off /\ cf'.loan_balance = 0)]_vars

\* a month run after the payoff: the flag is set and the outer guard fails
C9_Witness ==
    /\ pc = "loop"
    /\ args.loan_amount > 0
    /\ cf.loan_paid_off
    /\ cf.loan_balance = 0
    /\ cf.branch = "none"
    /\ cf.month < args.total_months

\* ----------------------------------------------------------------- C10
\* C10: for loanAmount > 0 and 0 <= payment <= budget, at the end of every
\* month m, totalInvested + totalPrincipalPaid + totalInterestPaid equals
\* m * budget; in the payoff month the overpayment is non-negative and is
\* part of totalInvested.
C10_BudgetConservation ==
    (InCall /\ args.loan_amount > 0 /\ args.monthly_loan_payment >= 0 /\ WithinBudget)
        => /\ cf.total_invested + cf.total_principal_paid + cf.total_interest_paid
                  = cf.month * args.total_monthly_payment
           /\ cf.branch = "payoff" =>
                  /\ cf.overpayment >= 0
                  /\ cf.total_invested >= cf.overpayment

\* the payoff month of a loan, with part of the payment left over
C10_Witness ==
    /\ pc = "loop"
    /\ args.loan_amount > 0
    /\ WithinBudget
    /\ cf.branch = "payoff"
    /\ cf.overpayment > 0
    /\ cf.month >= 2
    /\ cf.total_interest_paid > 0

====
